---- MODULE Spec2Model ----
(***************************************************************************)
(* Model of scripts/generate_test_matrix.py: the cheatsheet generator.     *)
(*                                                                         *)
(* A path is the sequence of its components (os.path.join appends a        *)
(* component); a file name is built by string concatenation as the code    *)
(* builds it.  A Python dict is a sequence of <<key, value>> pairs in      *)
(* insertion order, so that iterating a dict yields its keys in order.     *)
(* Python's None is the string None, distinct from every file content.     *)
(***************************************************************************)
EXTENDS Integers, Sequences, FiniteSets, TLC

\* ------------------------------------------------------------------ bounds
MaxDirs == 3      \* entries in the root directory listing
MaxFiles == 3     \* example files present under the root
MaxResults == 2   \* results in one matcher response

\* ------------------------------------------------------ python values
None == "<None>"
Unreadable == "<unreadable>"   \* a path that exists but whose open() raises

Truthy(v) == v # None /\ v # ""

InList(x, l) == \E i \in DOMAIN l : l[i] = x

\* dict as an insertion-ordered sequence of <<key, value>>
Keys(d) == [i \in DOMAIN d |-> d[i][1]]
HasKey(d, k) == \E i \in DOMAIN d : d[i][1] = k
Get(d, k, default) ==
    IF HasKey(d, k) THEN d[CHOOSE i \in DOMAIN d : d[i][1] = k][2] ELSE default
Put(d, k, v) ==
    IF HasKey(d, k)
    THEN [i \in DOMAIN d |-> IF d[i][1] = k THEN <<k, v>> ELSE d[i]]
    ELSE Append(d, <<k, v>>)

\* ------------------------------------------------------------- the tables
VERBOSE_REGEXP_SYNTAX == "OCaml Syntax: \"=~/<regexp>/\""

VERBOSE_FEATURE_NAME ==
    << <<"dots", "Wildcard Matches (...)">>,
       <<"equivalence", "Helpful Features">>,
       <<"metavar", "Named Placeholders ($X)">>,
       <<"misc", "Others">>,
       <<"metavar_equality", "Reoccurring Expressions">>,
       <<"concrete", "Exact Matches">>,
       <<"regexp", "Regular Expressions">>,
       <<"deep", "Deep (Recursive) Matching">> >>

VERBOSE_SUBCATEGORY_NAME ==
    << <<"stmt", "Statement">>,
       <<"stmts", "Statements">>,
       <<"call", "Function Call">>,
       <<"eq", "Equality Constraints">>,
       <<"nested_stmts", "Nested Statements">>,
       <<"cond", "Conditionals">>,
       <<"arg", "Argument">>,
       <<"args", "Arguments">>,
       <<"import", "Imports">>,
       <<"string", "Strings">>,
       <<"expr", "Expressions">>,
       <<"var", "Variables">>,
       <<"naming_import", "Import Renaming/Aliasing">>,
       <<"constant_propagation", "Constant Propagation">>,
       <<"fieldname", "Field Names">>,
       <<"syntax", "Single Statements">>,
       <<"exprstmt", "Expression and Statement">> >>

LANGUAGE_EXCEPTIONS ==
    << <<"java", <<"naming_import">> >>,
       <<"c", <<"naming_import">> >>,
       <<"ruby", <<"naming_import", "typed">> >>,
       <<"python", <<"typed">> >>,
       <<"js", <<"typed">> >> >>

EXCLUDE == <<"TODO", "POLYGLOT", "e2e", "OTHER">>

CHEATSHEET_ENTRIES ==
    << <<"concrete", <<"syntax">> >>,
       <<"dots", <<"args", "string", "stmts", "nested_stmts">> >>,
       <<"metavar", <<"call", "arg", "stmt", "cond", "import", "typed">> >>,
       <<"regexp", <<"string">> >>,
       <<"metavar_equality", <<"expr", "stmt", "var">> >>,
       <<"equivalence", <<"naming_import", "constant_propagation">> >> >>

\* The two inner for loops of generate_cheatsheet, flattened: the sequence of
\* <<category, subcategory>> in iteration order.
RECURSIVE FlattenEntries(_)
FlattenEntries(d) ==
    IF d = <<>> THEN <<>>
    ELSE [i \in DOMAIN d[1][2] |-> <<d[1][1], d[1][2][i]>>] \o FlattenEntries(Tail(d))

Items == FlattenEntries(CHEATSHEET_ENTRIES)

\* ------------------------------------------------------------ the world
VARIABLES
    listing,      \* os.listdir(root): the names in the root directory, in order
    fs,           \* the files under the root: path -> content
    outfile,      \* what the run did to the file named by --output-file:
                  \* untouched, opened (created or truncated to empty), written
    args,         \* the parsed command line
    pc,           \* the position of the process
    exit_status,  \* -1 while running, then the process exit status
    langs,        \* generate_cheatsheet: the language directories
    li, ei,       \* position of the loops: langs[li], Items[ei]
    sgrep_path, code_path, highlights,   \* locals of the loop body
    ranges,       \* stdout of the last matcher run
    returncode,   \* exit status of the last matcher run
    output,       \* the Aggregated Document being built
    tmpfiles,     \* the temporary configuration files that exist
    ntmp,         \* temporary files created so far
    invocations,  \* the matcher subprocesses run so far, in order
    rendered,     \* main: the rendered output
    sink          \* where the rendered output went: none, file, stdout

vars == <<listing, fs, outfile, args, pc, exit_status, langs, li, ei,
          sgrep_path, code_path, highlights, ranges, returncode, output,
          tmpfiles, ntmp, invocations, rendered, sink>>

root_dir == <<"tests">>

\* names that may appear in the root directory, in the order os.listdir
\* reports them; README is a regular file, the others are directories
RootNames == <<"ruby", "README", "POLYGLOT", "python">>
isdir(name) == name # "README"

Listings ==
    {SelectSeq(RootNames, LAMBDA n : n \in S) :
        S \in {T \in SUBSET {RootNames[i] : i \in DOMAIN RootNames} :
                  Cardinality(T) <= MaxDirs}}

\* example files that may be present: pattern files and code files
CandidatePatterns ==
    { <<"tests", "POLYGLOT", "dots_args.sgrep">>,
      <<"tests", "python", "dots_args.sgrep">>,
      <<"tests", "python", "metavar_typed.sgrep">> }
CandidateCodes ==
    { <<"tests", "python", "dots_args.py">>,
      <<"tests", "ruby", "dots_args.rb">>,
      <<"tests", "python", "metavar_typed.py">> }
CandidatePaths == CandidatePatterns \cup CandidateCodes

\* a pattern file holds a pattern or cannot be read; a code file holds code
PatternContents == {"foo(...)", Unreadable}
CodeContents == {"foo(1)"}

\* what the matcher can print on stdout: nothing, something that is not the
\* expected JSON, or a JSON document with a list of results
Result(i) == [check_id |-> "default-example",
              start |-> [line |-> i, col |-> 1], end |-> [line |-> i, col |-> 5]]
Stdouts ==
    {[kind |-> "empty", results |-> <<>>], [kind |-> "malformed", results |-> <<>>]}
    \cup {[kind |-> "json", results |-> [i \in 1..k |-> Result(i)]] : k \in 0..MaxResults}
ReturnCodes == {0, 1, 2}

\* -------------------------------------------------------- pure functions
exists(path) == path \in DOMAIN fs

\* os.path.join(dir, name)
join(dir, name) == Append(dir, name)

RECURSIVE JoinComponents(_)
JoinComponents(p) ==
    IF Len(p) = 0 THEN "."
    ELSE IF Len(p) = 1 THEN p[1]
    ELSE p[1] \o "/" \o JoinComponents(Tail(p))

\* os.path.relpath(path, start), for a path below start
relpath(path, start) == JoinComponents(SubSeq(path, Len(start) + 1, Len(path)))

find_path_generic_only(root, lang, category, subcategory, extension) ==
    join(join(root, "POLYGLOT"), category \o "_" \o subcategory \o "." \o extension)

find_path(root, lang, category, subcategory, extension) ==
    LET base_path == join(join(root, lang), category \o "_" \o subcategory)
        joined == [base_path EXCEPT ![Len(base_path)] = @ \o "." \o extension]
    IN  IF exists(joined) THEN joined
        ELSE LET generic_base_path ==
                     join(join(root, "POLYGLOT"), category \o "_" \o subcategory)
             IN  [generic_base_path EXCEPT ![Len(generic_base_path)] = @ \o "." \o extension]

lang_dir_to_ext(lang) ==
    LET LANG_DIR_TO_EXT == << <<"python", "py">>, <<"ruby", "rb">> >>
    IN  Get(LANG_DIR_TO_EXT, lang, lang)

\* open(path).read(): defined when the path can be read
CanRead(path) == exists(path) /\ fs[path] # Unreadable

read_if_exists(path) == IF exists(path) THEN fs[path] ELSE None

get_language_directories_no_exclude(files) ==
    SelectSeq(files, LAMBDA f : isdir(f))

get_language_directories(files) ==
    SelectSeq(files, LAMBDA f : isdir(f) /\ ~InList(f, EXCLUDE))

\* ------------------------------------------------------- the aggregator
FeatureName(category) == Get(VERBOSE_FEATURE_NAME, category, category)

SubcategoryName_no_lookup(category, subcategory) ==
    IF category = "regexp" /\ subcategory = "string"
    THEN VERBOSE_REGEXP_SYNTAX
    ELSE subcategory

SubcategoryName(category, subcategory) ==
    IF category = "regexp" /\ subcategory = "string"
    THEN VERBOSE_REGEXP_SYNTAX
    ELSE Get(VERBOSE_SUBCATEGORY_NAME, subcategory, subcategory)

language_exception_feature_only(lang, feature_name, subcategory) ==
    InList(feature_name, Get(LANGUAGE_EXCEPTIONS, lang, <<>>))

language_exception(lang, feature_name, subcategory) ==
    \/ InList(feature_name, Get(LANGUAGE_EXCEPTIONS, lang, <<>>))
    \/ InList(subcategory, Get(LANGUAGE_EXCEPTIONS, lang, <<>>))

\* the guard of the matcher call
BothExist_either(sp, cp) == exists(sp) \/ exists(cp)

BothExist(sp, cp) == exists(sp) /\ exists(cp)

\* j = json.loads(ranges); the start and end of each of j["results"], in order
Highlights(out) ==
    IF out.kind = "empty" THEN <<>>
    ELSE [i \in DOMAIN out.results |->
             [start |-> out.results[i].start, end |-> out.results[i].end]]

MakeEntry(sp, cp, hl) ==
    << <<"pattern", read_if_exists(sp)>>,
       <<"pattern_path", relpath(sp, root_dir)>>,
       <<"code", read_if_exists(cp)>>,
       <<"code_path", relpath(cp, root_dir)>>,
       <<"highlights", hl>> >>

\* read_if_exists raises on a path that exists and cannot be read
EntryFaults(sp, cp) ==
    \/ exists(sp) /\ ~CanRead(sp)
    \/ exists(cp) /\ ~CanRead(cp)

\* output[lang][feature_name][subcategory_name].append(entry), on defaultdicts
Insert(out, lang, feature_name, subcategory_name, entry) ==
    LET categories == Get(out, lang, <<>>)
        subcategories == Get(categories, feature_name, <<>>)
        entries == Get(subcategories, subcategory_name, <<>>)
    IN  Put(out, lang,
            Put(categories, feature_name,
                Put(subcategories, subcategory_name, Append(entries, entry))))

\* lines 181-199: build the entry, insert it unless excluded
Aggregate(out, lang, category, subcategory, sp, cp, hl) ==
    LET feature_name == FeatureName(category)
        subcategory_name == SubcategoryName(category, subcategory)
    IN  IF language_exception(lang, feature_name, subcategory)
        THEN out
        ELSE Insert(out, lang, feature_name, subcategory_name, MakeEntry(sp, cp, hl))

\* the with statement of run_semgrep_on_example: leaving its block by a
\* return, by sys.exit or by an exception deletes the temporary file
ScopeExit_leak_on_error(files, name, how) ==
    IF how = "return" THEN files \ {name} ELSE files

ScopeExit(files, name, how) == files \ {name}

\* ------------------------------------------------------------ renderers
JsonEntry(e) ==
    [i \in DOMAIN e |->
        <<e[i][1], IF e[i][1] \in {"pattern", "code"} /\ e[i][2] = None
                   THEN "null" ELSE e[i][2]>>]

json_dumps(cheatsheet) ==
    [l \in DOMAIN cheatsheet |->
      <<cheatsheet[l][1],
        [c \in DOMAIN cheatsheet[l][2] |->
          <<cheatsheet[l][2][c][1],
            [s \in DOMAIN cheatsheet[l][2][c][2] |->
              <<cheatsheet[l][2][c][2][s][1],
                [e \in DOMAIN cheatsheet[l][2][c][2][s][2] |->
                    JsonEntry(cheatsheet[l][2][c][2][s][2][e])]>>]>>]>>]

\* a rendered HTML fragment is the sequence of its blocks
snippet_and_pattern_to_html(sgrep_pattern, sgrep_path_, code_snippets) ==
    IF Truthy(sgrep_pattern)
    THEN IF \E i \in DOMAIN code_snippets : Truthy(code_snippets[i][1])
         THEN <<[class |-> "pattern", href |-> sgrep_path_, text |-> sgrep_pattern]>>
              \o [i \in DOMAIN code_snippets |->
                    [class |-> "match", href |-> code_snippets[i][2],
                     text |-> code_snippets[i][1]]]
         ELSE <<[class |-> "notimplemented", href |-> sgrep_path_, text |-> None]>>
    ELSE <<>>

\* lines 295-299.  Each element of entries is a dict, and unpacking a dict
\* into five targets binds them to its five keys.
RECURSIVE GroupByPattern(_, _)
GroupByPattern(entries, by_pattern) ==
    IF entries = <<>> THEN by_pattern
    ELSE LET t == Keys(Head(entries))
             k == <<t[1], t[2]>>
         IN  GroupByPattern(Tail(entries),
                 Put(by_pattern, k, Append(Get(by_pattern, k, <<>>), <<t[3], t[4]>>)))

\* lines 301-308: one <div class=pair> per group of one subcategory
CompiledExamples(entries) ==
    LET by_pattern == GroupByPattern(entries, <<>>)
    IN  [g \in DOMAIN by_pattern |->
            snippet_and_pattern_to_html(by_pattern[g][1][1], by_pattern[g][1][2],
                                        by_pattern[g][2])]

cheatsheet_to_html(cheatsheet) ==
    [l \in DOMAIN cheatsheet |->
      [lang |-> cheatsheet[l][1],
       categories |->
        [c \in DOMAIN cheatsheet[l][2] |->
          [category |-> cheatsheet[l][2][c][1],
           examples |->
            [s \in DOMAIN cheatsheet[l][2][c][2] |->
              [subcategory |-> cheatsheet[l][2][c][2][s][1],
               pairs |-> CompiledExamples(cheatsheet[l][2][c][2][s][2])]]]]]]

\* ---------------------------------------------------------------- Init
Init ==
    /\ listing \in Listings
    /\ \E D \in SUBSET CandidatePaths :
          /\ Cardinality(D) <= MaxFiles
          /\ \A p \in D : InList(p[2], listing)
          /\ fs \in {f \in [D -> PatternContents \cup CodeContents] :
                       \A p \in D : f[p] \in IF p \in CandidatePatterns
                                              THEN PatternContents
                                              ELSE CodeContents}
    /\ outfile = "untouched"
    /\ args = [directory |-> root_dir, output_file |-> FALSE,
               json |-> FALSE, html |-> FALSE]
    /\ pc = "start"
    /\ exit_status = -1
    /\ langs = <<>>
    /\ li = 1
    /\ ei = 0
    /\ sgrep_path = <<>>
    /\ code_path = <<>>
    /\ highlights = <<>>
    /\ ranges = [kind |-> "empty", results |-> <<>>]
    /\ returncode = 0
    /\ output = <<>>
    /\ tmpfiles = {}
    /\ ntmp = 0
    /\ invocations = <<>>
    /\ rendered = [format |-> "none", body |-> <<>>]
    /\ sink = "none"

\* ------------------------------------------------------------- actions
world == <<listing, fs>>

\* parse_args: argparse.FileType("w") opens the --output-file for writing
\* while the arguments are parsed
ParseArgs ==
    /\ pc = "start"
    /\ \E of \in BOOLEAN, fmt \in {"json", "html"} :
          /\ args' = [directory |-> root_dir, output_file |-> of,
                      json |-> (fmt = "json"), html |-> (fmt = "html")]
          /\ outfile' = IF of THEN "opened" ELSE outfile
    /\ pc' = "generate"
    /\ UNCHANGED <<world, exit_status, langs, li, ei, sgrep_path, code_path,
                   highlights, ranges, returncode, output, tmpfiles, ntmp,
                   invocations, rendered, sink>>

\* generate_cheatsheet, lines 158-161
ListLanguages ==
    /\ pc = "generate"
    /\ langs' = get_language_directories(listing)
    /\ output' = <<>>
    /\ li' = 1
    /\ ei' = 0
    /\ pc' = "loop"
    /\ UNCHANGED <<world, outfile, args, exit_status, sgrep_path, code_path,
                   highlights, ranges, returncode, tmpfiles, ntmp, invocations,
                   rendered, sink>>

\* the next position of the three nested loops
NextPos == IF ei < Len(Items) THEN <<li, ei + 1>> ELSE <<li + 1, 1>>
HasNext == NextPos[1] <= Len(langs)

NextSgrep ==
    find_path(root_dir, langs[NextPos[1]], Items[NextPos[2]][1],
              Items[NextPos[2]][2], "sgrep")
NextCode ==
    find_path(root_dir, langs[NextPos[1]], Items[NextPos[2]][1],
              Items[NextPos[2]][2], lang_dir_to_ext(langs[NextPos[1]]))

\* an uncaught exception ends the process with a traceback and status 1
Fault ==
    /\ pc' = "fault"
    /\ exit_status' = 1

\* one iteration of the loop body in which the matcher is not called
\* (lines 166-199 with the condition of line 172 false)
IterationWithoutMatcher ==
    /\ pc = "loop"
    /\ HasNext
    /\ ~BothExist(NextSgrep, NextCode)
    /\ li' = NextPos[1]
    /\ ei' = NextPos[2]
    /\ sgrep_path' = NextSgrep
    /\ code_path' = NextCode
    /\ highlights' = <<>>
    /\ IF EntryFaults(NextSgrep, NextCode)
       THEN Fault /\ UNCHANGED output
       ELSE /\ output' = Aggregate(output, langs[NextPos[1]], Items[NextPos[2]][1],
                                   Items[NextPos[2]][2], NextSgrep, NextCode, <<>>)
            /\ UNCHANGED <<pc, exit_status>>
    /\ UNCHANGED <<world, outfile, args, langs, ranges, returncode, tmpfiles,
                   ntmp, invocations, rendered, sink>>

\* lines 166-173 and 140: both files exist, run_semgrep_on_example is entered
\* and its temporary file is created
EnterAdapter ==
    /\ pc = "loop"
    /\ HasNext
    /\ BothExist(NextSgrep, NextCode)
    /\ li' = NextPos[1]
    /\ ei' = NextPos[2]
    /\ sgrep_path' = NextSgrep
    /\ code_path' = NextCode
    /\ highlights' = <<>>
    /\ ntmp' = ntmp + 1
    /\ tmpfiles' = tmpfiles \cup {ntmp + 1}
    /\ pc' = "read_pattern"
    /\ UNCHANGED <<world, outfile, args, exit_status, langs, ranges, returncode,
                   output, invocations, rendered, sink>>

\* lines 141-143: read the pattern file, write the configuration
ReadPattern ==
    /\ pc = "read_pattern"
    /\ IF CanRead(sgrep_path)
       THEN /\ pc' = "run"
            /\ UNCHANGED <<exit_status, tmpfiles>>
       ELSE /\ Fault
            /\ tmpfiles' = ScopeExit(tmpfiles, ntmp, "raise")
    /\ UNCHANGED <<world, outfile, args, langs, li, ei, sgrep_path, code_path,
                   highlights, ranges, returncode, output, ntmp, invocations,
                   rendered, sink>>

\* lines 144-146: the matcher runs and answers
RunSemgrep ==
    /\ pc = "run"
    /\ \E rc \in ReturnCodes, out \in Stdouts :
          /\ rc # 0 => out.kind = "empty"
          /\ returncode' = rc
          /\ ranges' = out
          /\ invocations' = Append(invocations,
                [lang |-> langs[li], category |-> Items[ei][1],
                 subcategory |-> Items[ei][2], config |-> ntmp,
                 code_path |-> code_path, returncode |-> rc, stdout |-> out])
    /\ pc' = "returned"
    /\ UNCHANGED <<world, outfile, args, exit_status, langs, li, ei, sgrep_path,
                   code_path, highlights, output, tmpfiles, ntmp, rendered, sink>>

AdapterExit_skip_entry ==
    /\ pc = "returned"
    /\ IF returncode = 0
       THEN /\ pc' = "collect"
            /\ tmpfiles' = ScopeExit(tmpfiles, ntmp, "return")
       ELSE /\ pc' = "loop"
            /\ tmpfiles' = ScopeExit(tmpfiles, ntmp, "exit")
    /\ UNCHANGED <<world, outfile, args, exit_status, langs, li, ei, sgrep_path,
                   code_path, highlights, ranges, returncode, output, ntmp,
                   invocations, rendered, sink>>

\* lines 147-153: return the stdout on status 0, else sys.exit(1)
AdapterExit ==
    /\ pc = "returned"
    /\ IF returncode = 0
       THEN /\ pc' = "collect"
            /\ tmpfiles' = ScopeExit(tmpfiles, ntmp, "return")
            /\ UNCHANGED exit_status
       ELSE /\ pc' = "exited"
            /\ exit_status' = 1
            /\ tmpfiles' = ScopeExit(tmpfiles, ntmp, "exit")
    /\ UNCHANGED <<world, outfile, args, langs, li, ei, sgrep_path, code_path,
                   highlights, ranges, returncode, output, ntmp, invocations,
                   rendered, sink>>

\* lines 174-199 after the matcher returned
CollectAndInsert ==
    /\ pc = "collect"
    /\ IF ranges.kind = "malformed" \/ EntryFaults(sgrep_path, code_path)
       THEN /\ Fault
            /\ highlights' = IF ranges.kind = "malformed" THEN <<>>
                             ELSE Highlights(ranges)
            /\ UNCHANGED output
       ELSE /\ highlights' = Highlights(ranges)
            /\ output' = Aggregate(output, langs[li], Items[ei][1], Items[ei][2],
                                   sgrep_path, code_path, Highlights(ranges))
            /\ pc' = "loop"
            /\ UNCHANGED exit_status
    /\ UNCHANGED <<world, outfile, args, langs, li, ei, sgrep_path, code_path,
                   ranges, returncode, tmpfiles, ntmp, invocations, rendered, sink>>

\* generate_cheatsheet returns (line 201) and main renders (lines 413-416)
Render ==
    /\ pc = "loop"
    /\ ~HasNext
    /\ rendered' = IF args.json
                   THEN [format |-> "json", body |-> json_dumps(output)]
                   ELSE [format |-> "html", body |-> cheatsheet_to_html(output)]
    /\ pc' = "write"
    /\ UNCHANGED <<world, outfile, args, exit_status, langs, li, ei, sgrep_path,
                   code_path, highlights, ranges, returncode, output, tmpfiles,
                   ntmp, invocations, sink>>

\* main, lines 418-421
WriteOutput ==
    /\ pc = "write"
    /\ IF args.output_file
       THEN outfile' = "written" /\ sink' = "file"
       ELSE sink' = "stdout" /\ UNCHANGED outfile
    /\ pc' = "done"
    /\ exit_status' = 0
    /\ UNCHANGED <<world, args, langs, li, ei, sgrep_path, code_path, highlights,
                   ranges, returncode, output, tmpfiles, ntmp, invocations,
                   rendered>>

Next ==
    \/ ParseArgs
    \/ ListLanguages
    \/ IterationWithoutMatcher
    \/ EnterAdapter
    \/ ReadPattern
    \/ RunSemgrep
    \/ AdapterExit
    \/ CollectAndInsert
    \/ Render
    \/ WriteOutput

Spec == Init /\ [][Next]_vars

\* ============================================================== properties
EntriesAt(doc, lang, feature, sub) ==
    Get(Get(Get(doc, lang, <<>>), feature, <<>>), sub, <<>>)

HasSlot(doc, lang, feature, sub) ==
    /\ HasKey(doc, lang)
    /\ HasKey(Get(doc, lang, <<>>), feature)
    /\ HasKey(Get(Get(doc, lang, <<>>), feature, <<>>), sub)

\* the exclusion rule as the exception table states it
Excluded(lang, category, subcategory) ==
    LET exceptions == Get(LANGUAGE_EXCEPTIONS, lang, <<>>)
    IN  InList(FeatureName(category), exceptions) \/ InList(subcategory, exceptions)

\* generate_cheatsheet has returned
Succeeded == pc \in {"write", "done"}

\* the loop body has been entered at least once
Started == ei >= 1

SomeMatcherFailed == \E i \in DOMAIN invocations : invocations[i].returncode # 0

LastInvocation == invocations[Len(invocations)]

\* C1: once a matcher invocation has returned a non-zero status it is the last
\* invocation ever issued, the loops stay at its (language, category,
\* subcategory), the process exits with status 1, and nothing is rendered,
\* printed or written.
C1_FatalMatcherExit ==
    SomeMatcherFailed =>
        /\ \A i \in 1..(Len(invocations) - 1) : invocations[i].returncode = 0
        /\ LastInvocation.returncode # 0
        /\ pc \in {"returned", "exited"}
        /\ exit_status = IF pc = "exited" THEN 1 ELSE -1
        /\ langs[li] = LastInvocation.lang
        /\ Items[ei] = <<LastInvocation.category, LastInvocation.subcategory>>
        /\ rendered.format = "none"
        /\ sink = "none"
        /\ outfile # "written"

C1_Witness ==
    /\ pc = "exited"
    /\ exit_status = 1
    /\ Len(invocations) = 2
    /\ invocations[1].returncode = 0

\* C2 (as claimed): in a run started with --output-file in which a matcher
\* invocation exits with status 2, the output file is never created, truncated
\* or written, and the process exits with a non-zero status.
C2_NoOutputFileTouched ==
    (args.output_file /\ \E i \in DOMAIN invocations : invocations[i].returncode = 2)
        => /\ outfile = "untouched"
           /\ pc = "exited" => exit_status # 0

\* C3: at most one temporary configuration file exists at any time; it exists
\* only inside run_semgrep_on_example and is gone after a return, after
\* sys.exit and after a fault while reading the pattern file.
C3_TempReleased ==
    /\ Cardinality(tmpfiles) <= 1
    /\ IF pc \in {"read_pattern", "run", "returned"}
       THEN tmpfiles = {ntmp}
       ELSE tmpfiles = {}

C3_Witness ==
    /\ pc = "fault"
    /\ ntmp = 1
    /\ invocations = <<>>
    /\ fs[sgrep_path] = Unreadable
    /\ tmpfiles = {}

\* the <<language, feature name, subcategory name>> of every combination of
\* the enumeration that is excluded for a language of the exception table
ExcludedKeys ==
    {<<LANGUAGE_EXCEPTIONS[k][1], FeatureName(Items[i][1]),
       SubcategoryName(Items[i][1], Items[i][2])>> :
        <<k, i>> \in {<<k, i>> \in (DOMAIN LANGUAGE_EXCEPTIONS) \X (DOMAIN Items) :
            Excluded(LANGUAGE_EXCEPTIONS[k][1], Items[i][1], Items[i][2])}}

\* C4: a (feature name, subcategory name) whose feature name or raw
\* subcategory key is in a language's exception list is never a key of the
\* document under that language.
C4_ExcludedNeverInserted ==
    \A key \in ExcludedKeys : ~HasSlot(output, key[1], key[2], key[3])

C4_Witness ==
    /\ pc = "done"
    /\ HasKey(output, "python")
    /\ \E i \in DOMAIN invocations :
          /\ invocations[i].lang = "python"
          /\ invocations[i].subcategory = "typed"
          /\ invocations[i].stdout.results # <<>>

\* C5: the path find_path returned for the pattern and for the code of the
\* current (language, category, subcategory) is the language-specific path
\* exactly when that file exists, and is the POLYGLOT path otherwise, whether
\* or not that one exists.
C5_FindPath ==
    Started =>
        LET lang == langs[li]
            base == Items[ei][1] \o "_" \o Items[ei][2]
            specific(ext) == <<"tests", lang, base \o "." \o ext>>
            generic(ext) == <<"tests", "POLYGLOT", base \o "." \o ext>>
            Right(result, ext) ==
                /\ (result = specific(ext)) <=> (specific(ext) \in DOMAIN fs)
                /\ (specific(ext) \notin DOMAIN fs) => (result = generic(ext))
        IN  /\ Right(sgrep_path, "sgrep")
            /\ Right(code_path, lang_dir_to_ext(lang))

C5_Witness ==
    /\ sgrep_path = <<"tests", "python", "dots_args.sgrep">>
    /\ <<"tests", "POLYGLOT", "dots_args.sgrep">> \in DOMAIN fs
    /\ code_path = <<"tests", "POLYGLOT", "dots_args.py">>
    /\ code_path \notin DOMAIN fs

\* the scenario of C6: python/dots_args.sgrep and python/dots_args.py exist
\* and the matcher returned exactly one match for them
C6_Scenario ==
    /\ Succeeded
    /\ <<"tests", "python", "dots_args.sgrep">> \in DOMAIN fs
    /\ <<"tests", "python", "dots_args.py">> \in DOMAIN fs
    /\ \E i \in DOMAIN invocations :
          /\ invocations[i].lang = "python"
          /\ invocations[i].category = "dots"
          /\ invocations[i].subcategory = "args"
          /\ invocations[i].stdout.kind = "json"
          /\ Len(invocations[i].stdout.results) = 1

OneEntryOneHighlight(entries) ==
    /\ Len(entries) = 1
    /\ Len(Get(entries[1], "highlights", <<>>)) = 1

\* C6 (as claimed): in the scenario the document holds one entry with one
\* highlight under python, "Wildcard Matches (...)", "Argument".
C6_AsClaimed ==
    C6_Scenario =>
        OneEntryOneHighlight(
            EntriesAt(output, "python", "Wildcard Matches (...)", "Argument"))

\* C6 (amended): in the scenario the document holds one entry with one
\* highlight under python, "Wildcard Matches (...)", "Arguments", and that
\* feature has no subcategory "Argument".
C6_Arguments ==
    C6_Scenario =>
        /\ OneEntryOneHighlight(
               EntriesAt(output, "python", "Wildcard Matches (...)", "Arguments"))
        /\ Get(EntriesAt(output, "python", "Wildcard Matches (...)", "Arguments")[1],
               "highlights", <<>>)
             = <<[start |-> [line |-> 1, col |-> 1], end |-> [line |-> 1, col |-> 5]]>>
        /\ ~HasSlot(output, "python", "Wildcard Matches (...)", "Argument")

C6_Witness == C6_Scenario /\ Len(invocations) = 1

\* the rendered HTML of the slot at indices l, c, s of the document
HtmlPairs(l, c, s) == rendered.body[l].categories[c].examples[s].pairs

HtmlRendered == Succeeded /\ rendered.format = "html"

Slots ==
    {<<l, c, s>> \in (DOMAIN output) \X (1..Len(Items)) \X (1..Len(Items)) :
        /\ c \in DOMAIN output[l][2]
        /\ s \in DOMAIN output[l][2][c][2]}

SlotEntries(slot) == output[slot[1]][2][slot[2]][2][slot[3]][2]

\* C7 (as claimed): a slot whose entry has an absent or empty pattern text is
\* rendered with no block at all.
C7_EmptyPatternOmitted ==
    HtmlRendered =>
        \A slot \in Slots :
            (\A e \in DOMAIN SlotEntries(slot) :
                ~Truthy(Get(SlotEntries(slot)[e], "pattern", None)))
            => \A g \in DOMAIN HtmlPairs(slot[1], slot[2], slot[3]) :
                  HtmlPairs(slot[1], slot[2], slot[3])[g] = <<>>

\* C8 (as claimed): an entry with a pattern text whose group has no non-empty
\* code snippet is rendered as a notimplemented block naming its pattern
\* path; one whose group has a non-empty snippet is rendered as a pattern
\* block showing the pattern text, followed by the group's snippet blocks.
C8_PlaceholderOrSnippets ==
    HtmlRendered =>
        \A slot \in Slots : \A e \in DOMAIN SlotEntries(slot) :
            LET entries == SlotEntries(slot)
                pattern == Get(entries[e], "pattern", None)
                path == Get(entries[e], "pattern_path", None)
                group == {x \in DOMAIN entries :
                             /\ Get(entries[x], "pattern", None) = pattern
                             /\ Get(entries[x], "pattern_path", None) = path}
                pairs == HtmlPairs(slot[1], slot[2], slot[3])
            IN  Truthy(pattern) =>
                  IF \A x \in group : ~Truthy(Get(entries[x], "code", None))
                  THEN \E g \in DOMAIN pairs :
                          /\ Len(pairs[g]) = 1
                          /\ pairs[g][1].class = "notimplemented"
                          /\ pairs[g][1].href = path
                  ELSE \E g \in DOMAIN pairs :
                          /\ Len(pairs[g]) = 1 + Cardinality(group)
                          /\ pairs[g][1] =
                               [class |-> "pattern", href |-> path, text |-> pattern]
                          /\ \A x \in group : \E b \in 2..Len(pairs[g]) :
                                pairs[g][b] =
                                  [class |-> "match",
                                   href |-> Get(entries[x], "code_path", None),
                                   text |-> Get(entries[x], "code", None)]

\* the language directories C9 speaks of
LanguageDirectories ==
    {listing[i] : i \in {j \in DOMAIN listing :
        isdir(listing[j]) /\ listing[j] \notin {"TODO", "POLYGLOT", "e2e", "OTHER"}}}

\* C9: after generate_cheatsheet returned, every language directory that is
\* not reserved has, for every (category, subcategory) not excluded for it,
\* exactly one entry under its feature name and subcategory name, with absent
\* texts and no highlights when neither file exists; and the document holds
\* no other language, feature or subcategory key.
C9_OneEntryPerSlot ==
    Succeeded =>
        /\ \A lang \in LanguageDirectories : \A i \in DOMAIN Items :
              LET entries == EntriesAt(output, lang, FeatureName(Items[i][1]),
                                       SubcategoryName(Items[i][1], Items[i][2]))
                  sp == find_path(root_dir, lang, Items[i][1], Items[i][2], "sgrep")
                  cp == find_path(root_dir, lang, Items[i][1], Items[i][2],
                                  lang_dir_to_ext(lang))
              IN  ~Excluded(lang, Items[i][1], Items[i][2]) =>
                    /\ Len(entries) = 1
                    /\ (sp \notin DOMAIN fs /\ cp \notin DOMAIN fs) =>
                          /\ Get(entries[1], "pattern", "") = None
                          /\ Get(entries[1], "code", "") = None
                          /\ Get(entries[1], "highlights", None) = <<>>
        /\ \A l \in DOMAIN output :
              /\ output[l][1] \in LanguageDirectories
              /\ \A c \in DOMAIN output[l][2] : \A s \in DOMAIN output[l][2][c][2] :
                    /\ Len(output[l][2][c][2][s][2]) = 1
                    /\ \E i \in DOMAIN Items :
                          /\ ~Excluded(output[l][1], Items[i][1], Items[i][2])
                          /\ FeatureName(Items[i][1]) = output[l][2][c][1]
                          /\ SubcategoryName(Items[i][1], Items[i][2])
                               = output[l][2][c][2][s][1]
        /\ Len(output) = Cardinality(LanguageDirectories)

C9_Witness ==
    /\ Succeeded
    /\ InList("POLYGLOT", listing)
    /\ InList("README", listing)
    /\ Len(output) = 1
    /\ fs = <<>>

\* the k-th (language, category, subcategory) of the loops, in loop order
PosLang(k) == langs[((k - 1) \div Len(Items)) + 1]
PosItem(k) == Items[((k - 1) % Len(Items)) + 1]
Triple(k) == <<PosLang(k), PosItem(k)[1], PosItem(k)[2]>>
CurrentPos == (li - 1) * Len(Items) + ei

\* both resolved paths of the k-th combination exist on disk
ShouldInvoke(k) ==
    /\ find_path(root_dir, PosLang(k), PosItem(k)[1], PosItem(k)[2], "sgrep")
          \in DOMAIN fs
    /\ find_path(root_dir, PosLang(k), PosItem(k)[1], PosItem(k)[2],
                 lang_dir_to_ext(PosLang(k))) \in DOMAIN fs

RECURSIVE ExpectedInvocations(_)
ExpectedInvocations(k) ==
    IF k = 0 THEN <<>>
    ELSE ExpectedInvocations(k - 1) \o (IF ShouldInvoke(k) THEN <<Triple(k)>> ELSE <<>>)

Invoked ==
    [i \in DOMAIN invocations |->
        <<invocations[i].lang, invocations[i].category, invocations[i].subcategory>>]

\* the start and end of the results of a matcher response, in emitted order
RangesOf(stdout) ==
    IF stdout.kind = "json"
    THEN [i \in DOMAIN stdout.results |->
             [start |-> stdout.results[i].start, end |-> stdout.results[i].end]]
    ELSE <<>>

\* C10: the matcher invocations issued so far are, in loop order, the
\* combinations before the current one whose two resolved paths exist,
\* excluded combinations included, followed by the current combination once
\* its invocation was issued, which happens only if its two paths exist; an
\* invocation is issued only after the previous one returned 0, and a
\* non-zero exit ends the run whatever the combination.  When an iteration
\* completes, its highlights are empty if the matcher was not invoked and are
\* the ranges of its results in emitted order if it was, and they are the
\* highlights of the entry inserted when the combination is not excluded.
C10_InvokedIffBothExist ==
    IF ~Started THEN invocations = <<>>
    ELSE LET before == ExpectedInvocations(CurrentPos - 1)
             current == Len(invocations) = Len(before) + 1
             completed == pc \in {"loop", "write", "done"}
         IN  /\ Invoked \in {before, before \o <<Triple(CurrentPos)>>}
             /\ current => ShouldInvoke(CurrentPos)
             /\ pc \in {"read_pattern", "run"} => ~current /\ ShouldInvoke(CurrentPos)
             /\ pc \in {"returned", "collect", "exited"} => current
             /\ \A i \in 1..(Len(invocations) - 1) : invocations[i].returncode = 0
             /\ (invocations # <<>> /\ LastInvocation.returncode # 0)
                   => pc \in {"returned", "exited"}
             /\ completed =>
                   /\ current <=> ShouldInvoke(CurrentPos)
                   /\ highlights = IF current THEN RangesOf(LastInvocation.stdout)
                                   ELSE <<>>
                   /\ ~Excluded(Triple(CurrentPos)[1], Triple(CurrentPos)[2],
                                Triple(CurrentPos)[3])
                        => Get(EntriesAt(output, Triple(CurrentPos)[1],
                                   FeatureName(Triple(CurrentPos)[2]),
                                   SubcategoryName(Triple(CurrentPos)[2],
                                                   Triple(CurrentPos)[3]))[1],
                               "highlights", None) = highlights

\* a non-zero exit of the matcher on an excluded combination
C10_Witness ==
    /\ pc = "exited"
    /\ Len(invocations) = 1
    /\ Excluded("python", "metavar", "typed")
    /\ LastInvocation.lang = "python"
    /\ LastInvocation.subcategory = "typed"
    /\ LastInvocation.returncode = 2

====
